---- MODULE Spec2Model ----
(***************************************************************************)
(* Model of dom_parser::DOMtree (src/DOMtree.hpp): an arena of DOMnode     *)
(* records addressed by integer UIDs, with a FIFO queue of vacant UIDs     *)
(* and a live-node counter.                                                *)
(*                                                                         *)
(* The vector `nodes` is a TLA+ sequence; the C++ index h is the TLA+      *)
(* index h + 1.  DOMnode (DOMnode.hpp) is a record with the fields uid,    *)
(* parent, children and payload.                                           *)
(***************************************************************************)
EXTENDS Integers, Sequences, FiniteSets, TLC

VARIABLES nodes, nodes_counter, vacantUIDs, status, last

vars == <<nodes, nodes_counter, vacantUIDs, status, last>>

(***************************************************************************)
(* Bounds of the exploration: the largest table, the largest table on      *)
(* which moveSubtree is still called, the longest children sequence and    *)
(* the longest queue of vacant UIDs.                                       *)
(***************************************************************************)
MaxTable == 4
MaxMoveTable == 3
MaxChildren == 2
MaxVacant == 3

\* Handles a caller may pass: -1 (the "none" sentinel), every index of the
\* largest table, and one index past it.
HandleArgs == -1 .. MaxTable

TagNames == {"tag"}
DataTexts == {"text"}

(***************************************************************************)
(* DOMnode                                                                 *)
(***************************************************************************)
\* DOMnode(std::string tagName, DOMnodeUID uid, DOMnodeUID parent)
NewElement(tagName, uid, parent) ==
    [uid |-> uid, parent |-> parent, children |-> <<>>,
     payload |-> <<"Element", tagName>>]

\* DOMnode(DOMnodeUID uid, DOMnodeUID parent, std::string data)
NewData(uid, parent, data) ==
    [uid |-> uid, parent |-> parent, children |-> <<>>,
     payload |-> <<"Data", data>>]

\* DOMnode::addChild: appends, duplicates are not checked.
addChild(node, h) == [node EXCEPT !.children = Append(@, h)]

RECURSIVE RemoveFirst(_, _)
RemoveFirst(s, h) ==
    IF s = <<>> THEN <<>>
    ELSE IF Head(s) = h THEN Tail(s)
    ELSE <<Head(s)>> \o RemoveFirst(Tail(s), h)

\* DOMnode::removeChild: removes the first occurrence, no-op if absent.
removeChild(node, h) == [node EXCEPT !.children = RemoveFirst(@, h)]

\* DOMnode::setParent
setParent(node, h) == [node EXCEPT !.parent = h]

\* DOMnode deletedNode = DOMnode("", -1, -1)
deletedNode == NewElement("", -1, -1)

(***************************************************************************)
(* Helpers on the table                                                    *)
(***************************************************************************)
\* h is a valid index of the vector ns (the unsigned comparison
\* `h < ns.size()` is false for a negative h).
InRange(ns, h) == h >= 0 /\ h < Len(ns)

\* ns[h] of the C++ code, for an index in range.
At(ns, h) == ns[h + 1]

\* ns with slot h replaced.
Put(ns, h, node) == [ns EXCEPT ![h + 1] = node]

RECURSIVE Count(_, _)
Count(s, h) ==
    IF s = <<>> THEN 0
    ELSE (IF Head(s) = h THEN 1 ELSE 0) + Count(Tail(s), h)

\* checkNodeExistance on an explicit table.
Exists(ns, h) == InRange(ns, h) /\ At(ns, h).uid # -1

\* A checkNodeExistance that forgets the tombstone test and only compares
\* the index with the size of the vector.
checkNodeExistance_BoundsOnly(h) == InRange(nodes, h)

checkNodeExistance(h) == Exists(nodes, h)

(***************************************************************************)
(* generateUID: returns the UID together with the updated counter and      *)
(* queue.                                                                  *)
(***************************************************************************)
generateUID(counter, vacant) ==
    LET c == counter + 1 IN
    IF c = 1 THEN [uid |-> 0, counter |-> c, vacant |-> vacant]
    ELSE IF vacant = <<>> THEN [uid |-> c - 1, counter |-> c, vacant |-> vacant]
    ELSE [uid |-> Head(vacant), counter |-> c, vacant |-> Tail(vacant)]

(***************************************************************************)
(* getAncestorList.  The loop runs while node_uid # 0.  Reading a slot     *)
(* outside the vector is undefined behaviour ("oob"); a parent chain that  *)
(* revisits a slot without reaching 0 never ends ("loop"): Len(ns) + 1     *)
(* in-range steps without reaching 0 visit some slot twice.                *)
(***************************************************************************)
RECURSIVE AncestorWalk(_, _, _, _)
AncestorWalk(ns, node_uid, ancestorList, fuel) ==
    IF node_uid = 0 THEN [outcome |-> "done", list |-> ancestorList]
    ELSE IF ~InRange(ns, node_uid) THEN [outcome |-> "oob", list |-> ancestorList]
    ELSE IF fuel = 0 THEN [outcome |-> "loop", list |-> ancestorList]
    ELSE AncestorWalk(ns, At(ns, node_uid).parent,
                      Append(ancestorList, At(ns, node_uid).parent), fuel - 1)

getAncestorList(ns, node) == AncestorWalk(ns, node, <<>>, Len(ns) + 1)

InSeq(s, h) == \E i \in 1 .. Len(s) : s[i] = h

(***************************************************************************)
(* Record of the last call: operation, arguments and returned value.       *)
(* ret is the UID returned by addNode/addInnerDataNode (-1 otherwise), ok  *)
(* the boolean returned by moveSubtree (FALSE otherwise).                  *)
(***************************************************************************)
Call(op, a, b, ret, ok) == [op |-> op, a |-> a, b |-> b, ret |-> ret, ok |-> ok]

(***************************************************************************)
(* DOMtree(std::string root)                                               *)
(***************************************************************************)
Init ==
    LET g == generateUID(0, <<>>) IN
    /\ \E root \in TagNames : nodes = <<NewElement(root, g.uid, -1)>>
    /\ nodes_counter = g.counter
    /\ vacantUIDs = g.vacant
    /\ status = "ok"
    /\ last = Call("create", -1, -1, -1, FALSE)

(***************************************************************************)
(* addNode / addInnerDataNode                                              *)
(***************************************************************************)
\* The table after writing `node` under UID and registering it at parent.
AddWrite(ns, parent, UID, node) ==
    LET written == IF InRange(ns, UID) THEN Put(ns, UID, node)
                   ELSE Append(ns, node)
    IN Put(written, parent, addChild(At(written, parent), UID))

\* The growth an exploration allows: the table and the children sequences
\* stay within the bounds.
WithinBounds(ns) ==
    /\ Len(ns) <= MaxTable
    /\ \A i \in 1 .. Len(ns) : Len(ns[i].children) <= MaxChildren

addNode(parent, tagName) ==
    /\ status = "ok"
    /\ \/ /\ ~checkNodeExistance(parent)
          /\ last' = Call("addNode", parent, -1, -1, FALSE)
          /\ UNCHANGED <<nodes, nodes_counter, vacantUIDs, status>>
       \/ /\ checkNodeExistance(parent)
          /\ LET g == generateUID(nodes_counter, vacantUIDs)
                 node == NewElement(tagName, g.uid, parent)
                 ns == AddWrite(nodes, parent, g.uid, node)
             IN /\ WithinBounds(ns)
                /\ nodes' = ns
                /\ nodes_counter' = g.counter
                /\ vacantUIDs' = g.vacant
                /\ last' = Call("addNode", parent, -1, g.uid, FALSE)
          /\ UNCHANGED status

addInnerDataNode(parent, data) ==
    /\ status = "ok"
    /\ \/ /\ ~checkNodeExistance(parent)
          /\ last' = Call("addInnerDataNode", parent, -1, -1, FALSE)
          /\ UNCHANGED <<nodes, nodes_counter, vacantUIDs, status>>
       \/ /\ checkNodeExistance(parent)
          /\ LET g == generateUID(nodes_counter, vacantUIDs)
                 node == NewData(g.uid, parent, data)
                 ns == AddWrite(nodes, parent, g.uid, node)
             IN /\ WithinBounds(ns)
                /\ nodes' = ns
                /\ nodes_counter' = g.counter
                /\ vacantUIDs' = g.vacant
                /\ last' = Call("addInnerDataNode", parent, -1, g.uid, FALSE)
          /\ UNCHANGED status

(***************************************************************************)
(* moveSubtree                                                             *)
(***************************************************************************)
\* The three writes of a move that passed every check.
MoveWrite(ns, subtree_root, new_parent) ==
    LET old_parent == At(ns, subtree_root).parent
        n1 == Put(ns, old_parent, removeChild(At(ns, old_parent), subtree_root))
        n2 == Put(n1, new_parent, addChild(At(n1, new_parent), subtree_root))
    IN Put(n2, subtree_root, setParent(At(n2, subtree_root), new_parent))

MoveReturns(subtree_root, new_parent, ok) ==
    /\ last' = Call("moveSubtree", subtree_root, new_parent, -1, ok)
    /\ UNCHANGED <<nodes_counter, vacantUIDs, status>>

MoveRejected(subtree_root, new_parent) ==
    /\ \/ ~checkNodeExistance(subtree_root)
       \/ ~checkNodeExistance(new_parent)
       \/ subtree_root = 0
       \/ subtree_root = new_parent
       \/ LET w == getAncestorList(nodes, new_parent)
          IN w.outcome = "done" /\ InSeq(w.list, subtree_root)
    /\ MoveReturns(subtree_root, new_parent, FALSE)
    /\ UNCHANGED nodes

MoveChecked(subtree_root, new_parent) ==
    /\ checkNodeExistance(subtree_root)
    /\ checkNodeExistance(new_parent)
    /\ subtree_root # 0
    /\ subtree_root # new_parent

MoveAccepted(subtree_root, new_parent) ==
    /\ MoveChecked(subtree_root, new_parent)
    /\ LET w == getAncestorList(nodes, new_parent)
       IN w.outcome = "done" /\ ~InSeq(w.list, subtree_root)
    /\ LET ns == MoveWrite(nodes, subtree_root, new_parent)
       IN WithinBounds(ns) /\ nodes' = ns
    /\ MoveReturns(subtree_root, new_parent, TRUE)

\* getAncestorList(new_parent) never returns: the vector of ancestors grows
\* until the allocation fails, and the call does not come back.
MoveHangs(subtree_root, new_parent) ==
    /\ MoveChecked(subtree_root, new_parent)
    /\ getAncestorList(nodes, new_parent).outcome = "loop"
    /\ status' = "hung"
    /\ last' = Call("moveSubtree", subtree_root, new_parent, -1, FALSE)
    /\ UNCHANGED <<nodes, nodes_counter, vacantUIDs>>

\* getAncestorList(new_parent) reads outside the vector: undefined
\* behaviour.  The process may die, the walk over garbage may never end, or
\* it may end with or without subtree_root among the values read.  (The
\* smallest table on which this happens has four slots.)
MoveUndefined(subtree_root, new_parent) ==
    /\ MoveChecked(subtree_root, new_parent)
    /\ getAncestorList(nodes, new_parent).outcome = "oob"
    /\ \/ /\ \E s \in {"crashed", "hung"} : status' = s
          /\ last' = Call("moveSubtree", subtree_root, new_parent, -1, FALSE)
          /\ UNCHANGED <<nodes, nodes_counter, vacantUIDs>>
       \/ /\ MoveReturns(subtree_root, new_parent, FALSE)
          /\ UNCHANGED nodes
       \/ /\ LET ns == MoveWrite(nodes, subtree_root, new_parent)
             IN WithinBounds(ns) /\ nodes' = ns
          /\ MoveReturns(subtree_root, new_parent, TRUE)

moveSubtree(subtree_root, new_parent) ==
    /\ status = "ok"
    /\ Len(nodes) <= MaxMoveTable
    /\ \/ MoveRejected(subtree_root, new_parent)
       \/ MoveAccepted(subtree_root, new_parent)
       \/ MoveHangs(subtree_root, new_parent)
       \/ MoveUndefined(subtree_root, new_parent)

(***************************************************************************)
(* deleteSubtree.  The breadth-first loop, one iteration per call of       *)
(* DeleteWalk.  An entry of the work queue that is not an index of the     *)
(* vector makes nodes[current_node] undefined behaviour: under "crash" the *)
(* process dies there, under "garbage" the read yields no children and the *)
(* write lands outside the vector.                                         *)
(***************************************************************************)
RECURSIVE DeleteWalk(_, _, _, _, _, _)
DeleteWalk(node_queue, ns, vacant, counter, oobMode, oob) ==
    IF node_queue = <<>>
    THEN [nodes |-> ns, vacant |-> vacant, counter |-> counter,
          outcome |-> "done", oob |-> oob]
    ELSE LET current_node == Head(node_queue) IN
         IF InRange(ns, current_node)
         THEN DeleteWalk(Tail(node_queue \o At(ns, current_node).children),
                         Put(ns, current_node, deletedNode),
                         Append(vacant, current_node), counter - 1,
                         oobMode, oob)
         ELSE IF oobMode = "crash"
         THEN [nodes |-> ns, vacant |-> vacant, counter |-> counter,
               outcome |-> "crashed", oob |-> TRUE]
         ELSE DeleteWalk(Tail(node_queue), ns,
                         Append(vacant, current_node), counter - 1,
                         oobMode, TRUE)

DeleteIgnored(subtree_root) ==
    /\ ~checkNodeExistance(subtree_root)
    /\ last' = Call("deleteSubtree", subtree_root, -1, -1, FALSE)
    /\ UNCHANGED <<nodes, nodes_counter, vacantUIDs, status>>

DeleteRuns(subtree_root) ==
    /\ checkNodeExistance(subtree_root)
    /\ \E oobMode \in {"garbage", "crash"} :
         LET r == DeleteWalk(<<subtree_root>>, nodes, vacantUIDs,
                             nodes_counter, oobMode, FALSE)
         IN /\ oobMode = "crash" => r.oob
            /\ Len(r.vacant) <= MaxVacant
            /\ nodes' = r.nodes
            /\ vacantUIDs' = r.vacant
            /\ nodes_counter' = r.counter
            /\ status' = IF r.outcome = "crashed" THEN "crashed" ELSE "ok"
    /\ last' = Call("deleteSubtree", subtree_root, -1, -1, FALSE)

deleteSubtree(subtree_root) ==
    /\ status = "ok"
    /\ \/ DeleteIgnored(subtree_root)
       \/ DeleteRuns(subtree_root)

Next ==
    \/ \E parent \in HandleArgs, tagName \in TagNames : addNode(parent, tagName)
    \/ \E parent \in HandleArgs, data \in DataTexts : addInnerDataNode(parent, data)
    \/ \E subtree_root \in HandleArgs, new_parent \in HandleArgs :
          moveSubtree(subtree_root, new_parent)
    \/ \E subtree_root \in HandleArgs : deleteSubtree(subtree_root)

Spec == Init /\ [][Next]_vars

(***************************************************************************)
(* Vocabulary of the properties                                            *)
(***************************************************************************)
Slots == 0 .. Len(nodes) - 1

LiveSlots == {i \in Slots : At(nodes, i).uid # -1}

Tombstones == {i \in Slots : At(nodes, i).uid = -1}

IsAdd(call) == call.op \in {"addNode", "addInnerDataNode"}

\* The call was an add that returned a UID.
AddReturned(call) == IsAdd(call) /\ call.ret # -1

\* The call was a moveSubtree that returned true.
MoveReturnedTrue(call) == call.op = "moveSubtree" /\ call.ok

(***************************************************************************)
(* C1  Root stability: in every state reached from the constructor by      *)
(* add and delete calls, handle 0 satisfies checkNodeExistance and the     *)
(* node stored at handle 0 has parent -1.                                  *)
(***************************************************************************)
C1_RootStability ==
    checkNodeExistance(0) /\ At(nodes, 0).parent = -1

\* Supporting check for C1: the same with the deleted root left aside, i.e.
\* a live node at handle 0 has parent -1.
C1_LiveRootHasNoParent ==
    checkNodeExistance(0) => At(nodes, 0).parent = -1

(***************************************************************************)
(* C2  Handle 0 is assigned once, by the constructor: no call of addNode   *)
(* or addInnerDataNode returns 0.                                          *)
(***************************************************************************)
C2_AddNeverReturnsZero ==
    AddReturned(last) => last.ret # 0

(***************************************************************************)
(* C3  Handle uniqueness: the UID returned by a successful add did not     *)
(* satisfy checkNodeExistance immediately before the call, so an add never *)
(* overwrites the slot of a live node.                                     *)
(***************************************************************************)
C3_AddReturnsUnusedHandle ==
    [][AddReturned(last') => ~checkNodeExistance(last'.ret)]_vars

(***************************************************************************)
(* C4  Recycling correctness: a successful add called while vacantUIDs is  *)
(* non-empty returns the front of vacantUIDs, removes it from the queue    *)
(* and does not grow the table; with vacantUIDs empty it returns the       *)
(* current table size.                                                     *)
(***************************************************************************)
C4_RecyclingCorrectness ==
    [][AddReturned(last') =>
          IF vacantUIDs # <<>>
          THEN /\ last'.ret = Head(vacantUIDs)
               /\ vacantUIDs' = Tail(vacantUIDs)
               /\ Len(nodes') = Len(nodes)
          ELSE last'.ret = Len(nodes)]_vars

(***************************************************************************)
(* C5  Acyclic parent relation: from every live node the parent links      *)
(* reach handle 0 in finitely many steps through live nodes only, so       *)
(* getAncestorList ends for every live handle.                             *)
(***************************************************************************)
C5_ParentLinksReachRoot ==
    \A h \in LiveSlots :
        LET w == getAncestorList(nodes, h)
        IN /\ w.outcome = "done"
           /\ \A i \in 1 .. Len(w.list) : Exists(nodes, w.list[i])

\* Supporting check for C5: getAncestorList does not loop for ever on a
\* live handle, whatever the liveness of the nodes it passes.
C5_GetAncestorListTerminates ==
    \A h \in LiveSlots : getAncestorList(nodes, h).outcome # "loop"

(***************************************************************************)
(* C6  Parent/child consistency: for every live node n with parent p, the  *)
(* children sequence of p holds n's handle exactly once.                   *)
(***************************************************************************)
C6_ParentChildConsistency ==
    \A i \in LiveSlots :
        LET n == At(nodes, i)
        IN n.parent # -1 =>
              /\ InRange(nodes, n.parent)
              /\ Count(At(nodes, n.parent).children, n.uid) = 1

(***************************************************************************)
(* C7  Free-queue exactness: vacantUIDs holds exactly the indices of the   *)
(* tombstoned slots, each exactly once.                                    *)
(***************************************************************************)
C7_FreeQueueExact ==
    /\ \A k \in 1 .. Len(vacantUIDs) : vacantUIDs[k] \in Tombstones
    /\ \A i \in Tombstones : Count(vacantUIDs, i) = 1

(***************************************************************************)
(* C8  Live-count accuracy: nodes_counter is the number of slots whose     *)
(* stored handle is not the tombstone value -1, hence never negative.      *)
(***************************************************************************)
C8_LiveCountAccurate ==
    nodes_counter = Cardinality(LiveSlots)

(***************************************************************************)
(* C9  Index equals handle: every live slot i stores a node whose own      *)
(* handle is i.                                                            *)
(***************************************************************************)
C9_IndexEqualsHandle ==
    \A i \in LiveSlots : At(nodes, i).uid = i

(***************************************************************************)
(* C10  Move atomicity: after moveSubtree(a, b) returned true, a occurs    *)
(* exactly once in b's children, the children of the parent a had before   *)
(* the call no longer hold a, and a's parent field is b.                   *)
(***************************************************************************)
MovePost(a, b, old_parent) ==
    /\ Count(At(nodes', b).children, a) = 1
    /\ ~InSeq(At(nodes', old_parent).children, a)
    /\ At(nodes', a).parent = b

C10_MoveAtomicity ==
    [][MoveReturnedTrue(last') =>
          MovePost(last'.a, last'.b, At(nodes, last'.a).parent)]_vars

\* Supporting check for C10: the same for moves to a node other than the
\* parent the subtree already has.
C10_MoveToOtherParent ==
    [][(MoveReturnedTrue(last') /\ last'.b # At(nodes, last'.a).parent) =>
          MovePost(last'.a, last'.b, At(nodes, last'.a).parent)]_vars

(***************************************************************************)
(* Vocabulary of the properties of single calls                            *)
(***************************************************************************)
\* The call left the table, the counter and the queue as they were.
TreeUnchanged == UNCHANGED <<nodes, nodes_counter, vacantUIDs>>

\* The handles getAncestorList(h) collects, as far as the walk gets.
Ancestors(ns, h) == getAncestorList(ns, h).list

\* The arguments for which moveSubtree has to refuse, in the state before
\* the call.
InvalidMove(a, b) ==
    \/ a \notin LiveSlots
    \/ b \notin LiveSlots
    \/ a = 0
    \/ a = b
    \/ InSeq(Ancestors(nodes, b), a)

(***************************************************************************)
(* C11  Invalid move is rejected without mutation: moveSubtree(a, b)       *)
(* returns false and leaves table, queue and counter unchanged whenever a  *)
(* or b is not live, a = 0, a = b, or a is on the ancestor chain of b.     *)
(***************************************************************************)
C11_InvalidMoveRejected ==
    [][(last'.op = "moveSubtree" /\ InvalidMove(last'.a, last'.b)) =>
          (status' = "ok" /\ ~last'.ok /\ TreeUnchanged)]_vars

\* Supporting check for C11: the refusals decided by the argument checks
\* alone (not live, a = 0, a = b).
C11_ArgumentChecksReject ==
    [][(/\ last'.op = "moveSubtree"
        /\ \/ last'.a \notin LiveSlots
           \/ last'.b \notin LiveSlots
           \/ last'.a = 0
           \/ last'.a = last'.b) =>
          (status' = "ok" /\ ~last'.ok /\ TreeUnchanged)]_vars

(***************************************************************************)
(* C12  ParentNotFound: addNode/addInnerDataNode with a parent that is not *)
(* live (out of the table, negative or tombstoned) returns -1 and leaves   *)
(* table, queue and counter unchanged.                                     *)
(***************************************************************************)
C12_ParentNotFound ==
    [][(IsAdd(last') /\ last'.a \notin LiveSlots) =>
          (last'.ret = -1 /\ status' = "ok" /\ TreeUnchanged)]_vars

\* A rejected add on a tombstoned parent, after the table has grown and a
\* delete has run.
C12_Witness ==
    /\ IsAdd(last)
    /\ last.ret = -1
    /\ last.a \in Tombstones
    /\ LiveSlots # {}

(***************************************************************************)
(* C13  Ancestor chain correctness: for every live h, getAncestorList(h)   *)
(* returns parent(h), parent(parent(h)), ... with handle 0 last, without h *)
(* itself and without -1; for h = 0 it is empty.                           *)
(***************************************************************************)
C13_AncestorChain ==
    \A h \in LiveSlots :
        LET w == getAncestorList(nodes, h)
            n == Len(w.list)
        IN /\ w.outcome = "done"
           /\ h = 0 => n = 0
           /\ h # 0 =>
                 /\ n >= 1
                 /\ w.list[1] = At(nodes, h).parent
                 /\ \A i \in 1 .. n - 1 :
                        w.list[i + 1] = At(nodes, w.list[i]).parent
                 /\ w.list[n] = 0
                 /\ ~InSeq(w.list, h)
                 /\ ~InSeq(w.list, -1)

(***************************************************************************)
(* C14  Move frame: a successful moveSubtree(a, b) changes only the        *)
(* children of a's old parent, the children of b and a's parent field;     *)
(* a's children, every other node, the queue, the counter and the table    *)
(* size are unchanged.                                                     *)
(***************************************************************************)
MoveFrame(a, b, old_parent) ==
    /\ Len(nodes') = Len(nodes)
    /\ nodes_counter' = nodes_counter
    /\ vacantUIDs' = vacantUIDs
    /\ \A i \in Slots :
          /\ At(nodes', i).uid = At(nodes, i).uid
          /\ At(nodes', i).payload = At(nodes, i).payload
          /\ i # a => At(nodes', i).parent = At(nodes, i).parent
          /\ i \notin {b, old_parent} =>
                At(nodes', i).children = At(nodes, i).children
    /\ At(nodes', a).children = At(nodes, a).children

C14_MoveFrame ==
    [][MoveReturnedTrue(last') =>
          MoveFrame(last'.a, last'.b, At(nodes, last'.a).parent)]_vars

\* The call was deleteSubtree(r) on a node r that was live.
DeleteRan(call, r) == call.op = "deleteSubtree" /\ call.a = r /\ r \in LiveSlots

\* The live nodes that have r on their parent-link chain, before the call.
Descendants(r) == {h \in LiveSlots : InSeq(Ancestors(nodes, h), r)}

(***************************************************************************)
(* C15  Delete removes the whole subtree: after deleteSubtree(r) on a live *)
(* r, r is not live and no live node has r on its parent-link chain: r and *)
(* every descendant of r are tombstoned and queued in vacantUIDs.          *)
(***************************************************************************)
C15_DeleteRemovesSubtree ==
    [][\A r \in Slots : DeleteRan(last', r) =>
          /\ \A h \in Descendants(r) \cup {r} :
                h \in Tombstones' /\ InSeq(vacantUIDs', h)
          /\ \A h \in LiveSlots' : ~InSeq(Ancestors(nodes', h), r)]_vars

(***************************************************************************)
(* C16  Every operation terminates: deleteSubtree(r) finishes its          *)
(* breadth-first traversal and returns, for every argument and in every    *)
(* reachable state, stale or duplicated child handles included.            *)
(***************************************************************************)
C16_DeleteTerminates ==
    last.op = "deleteSubtree" => status = "ok"

(***************************************************************************)
(* C17  Successful add postcondition: when an add on parent p returns h,   *)
(* then h is live, h # p, the node at h has parent p and no children, p's  *)
(* children are the former ones followed by h, and p is still live with    *)
(* its parent field unchanged.                                             *)
(***************************************************************************)
C17_AddPostcondition ==
    [][AddReturned(last') =>
          LET h == last'.ret
              p == last'.a
          IN /\ h \in LiveSlots'
             /\ h # p
             /\ At(nodes', h).parent = p
             /\ At(nodes', h).children = <<>>
             /\ At(nodes', p).children = Append(At(nodes, p).children, h)
             /\ p \in LiveSlots'
             /\ At(nodes', p).parent = At(nodes, p).parent]_vars

(***************************************************************************)
(* C18  Delete does not detach: after deleteSubtree(r) on a live r # 0     *)
(* whose parent p is live, p is still live and p's children are what they  *)
(* were, so they still hold the now tombstoned handle r.                   *)
(***************************************************************************)
C18_DeleteDoesNotDetach ==
    [][\A r \in Slots :
          (/\ DeleteRan(last', r)
           /\ r # 0
           /\ At(nodes, r).parent \in LiveSlots) =>
             LET p == At(nodes, r).parent
             IN /\ p \in LiveSlots'
                /\ At(nodes', p).children = At(nodes, p).children
                /\ InSeq(At(nodes', p).children, r)
                /\ r \in Tombstones']_vars

(***************************************************************************)
(* C19  Delete is confined to the subtree: every node that was live before *)
(* deleteSubtree(r) and is neither r nor a node with r on its parent-link  *)
(* chain is live afterwards, with the same parent and children.            *)
(***************************************************************************)
C19_DeleteConfined ==
    [][\A r \in Slots : DeleteRan(last', r) =>
          \A h \in LiveSlots \ (Descendants(r) \cup {r}) :
              At(nodes', h) = At(nodes, h)]_vars

(***************************************************************************)
(* C20  Root deletion is permanent: deleteSubtree(0) on a live root leaves *)
(* no live handle, and from a table without live handle every add returns  *)
(* -1, every move returns false and no handle becomes live again.          *)
(***************************************************************************)
C20_RootDeletionPermanent ==
    [][/\ DeleteRan(last', 0) => LiveSlots' = {}
       /\ LiveSlots = {} =>
             /\ LiveSlots' = {}
             /\ IsAdd(last') => last'.ret = -1
             /\ last'.op = "moveSubtree" => ~last'.ok]_vars

====
